---- MODULE Spec2Model ----
(***************************************************************************)
(* A model of ncatbot/plugin/base_plugin.py: one BasePlugin instance, the  *)
(* file system below its work directory, the shared event bus and the      *)
(* persistent store it is wired to.                                        *)
(*                                                                         *)
(* EventBus and UniversalLoader are imported by base_plugin.py and not     *)
(* defined in it; they are modelled at the interface the specification     *)
(* gives them (section 6).                                                 *)
(***************************************************************************)
EXTENDS Integers, Sequences, FiniteSets, TLC

\* ------------------------------------------------------------------ bounds
\* Tokens the bus hands out during one behaviour.
MaxTokens == 2
\* Longest tracked handler list explored (unregister_handler grows the list).
MaxHandlers == 3
\* Most unsubscribe calls plugin code's own unregister_handlers calls make.
MaxUnsubCalls == 3
\* Instances constructed one after the other on the same paths.
MaxInstances == 2

\* --------------------------------------------------------------- constants
\* An attribute that is annotated on the class and never assigned.
Unset == "<unset>"
\* Values Python's `not x` takes for true among the strings modelled here.
Falsy == {"", "None"}

NameValues == {Unset, "", "None", "Echo"}
VersionValues == {Unset, "", "1.0"}
\* save_type as a subclass may set it; 'json' is the class default (line 73).
SaveTypeValues == {"", "json", "yaml"}
DependencyValues == {Unset, "None", "{}"}
\* File name extensions: json and yaml are formats the store knows, bin is not.
Exts == {"json", "yaml", "bin"}
KnownFormats == {"json", "yaml"}
\* Content of a file: absent, not parseable, the empty object, or a data tree.
DataValues == {"d1", "d2"}
Contents == {"none", "corrupt", "{}"} \cup DataValues
\* Keyword arguments a host passes to the constructor: an absent key is Unset.
Kwds == [save_type : {Unset, "bin"}]

Tokens == 1..MaxTokens

VARIABLES
    pc,             \* where the instance is in its life
    hook,           \* the user hook that is running, or "none"
    \* the class attributes / instance attributes
    name, version, save_type, dependencies, first_load, debug,
    kwdApplied,     \* the keyword arguments setattr has applied
    storeExt,       \* the extension of the path self.data is bound to
    workSpace,      \* whether self.work_space was built
    data,           \* the in-memory content of self.data
    handlers,       \* self._event_handlers
    usesBus,        \* whether this plugin's code calls the handler methods
    \* the file system
    workDir,        \* "absent", "dir" or "file"
    files,          \* content of workDir/<name>.<ext>
    ioFault,        \* the file system refuses to open the files of workDir
    preWorkDir, preFiles,   \* the file system just before construction
    classAttrs,     \* save_type and dependencies as the class body sets them
    usesScheduler,  \* whether the plugin code calls the scheduled-task facade
    jobs,           \* the names of the jobs registered with the scheduler
    lastTask,       \* the last facade call: arguments, forwarded calls, result
    added,          \* names this instance added and has not removed since
    expectedJobs,   \* the job set as the facade calls alone account for it
    hookRaised,     \* the exception the last raising user hook raised
    gen,            \* the instance at hand: the first, the second, ...
    prev,           \* what the instance before this one ended with
    filesAtUnload,  \* the files when __unload__ was called
    \* the event bus
    active,         \* tokens with a live subscription
    nextToken,      \* the next token subscribe returns
    unsubCalls,     \* how often unsubscribe was called with each token
    \* what the calls returned or raised
    ctorErr, onloadErr, unloadErr,
    olIdx, ulIdx,   \* the step of __onload__ / __unload__ that is next
    olLog, ulLog,   \* the steps of __onload__ / __unload__ so far
    loadCalls,      \* the outcome of each load() call of __onload__
    healedExt,      \* the file the self-heal wrote, or "none"
    saveCalls,      \* the save() calls of __unload__, each with its content
    lastCall,       \* the last handler call of plugin code and its result
    preUnload,      \* tokens registered before __unload__ was called
    delivered       \* tokens whose handler got an event published by a close hook

vars == <<pc, hook, name, version, save_type, dependencies, first_load, debug,
          kwdApplied, storeExt, workSpace, data, handlers, usesBus, workDir,
          files, ioFault, preWorkDir, preFiles, filesAtUnload, active, nextToken, unsubCalls,
          ctorErr, onloadErr, unloadErr, olIdx, ulIdx, olLog, ulLog, loadCalls,
          healedExt, saveCalls, lastCall, preUnload, delivered, classAttrs,
          gen, prev, usesScheduler, jobs, lastTask, added, expectedJobs,
          hookRaised>>

attrVars == <<name, version, save_type, dependencies, first_load, debug,
              kwdApplied, storeExt, workSpace, usesBus>>
fsVars == <<workDir, files, ioFault>>
preVars == <<preWorkDir, preFiles, classAttrs, gen, prev, usesScheduler>>
schedVars == <<jobs, lastTask, added, expectedJobs>>
busVars == <<active, nextToken, unsubCalls>>
onloadVars == <<onloadErr, olIdx, olLog, loadCalls, healedExt>>
unloadVars == <<unloadErr, ulIdx, ulLog, saveCalls, preUnload, delivered,
               filesAtUnload>>

NoFiles == [e \in Exts |-> "none"]
\* A token of a subscription another plugin holds: unknown to this instance.
ForeignToken == MaxTokens + 1
NoErr == [kind |-> "none", plugin |-> "", cause |-> ""]
Err(k) == [kind |-> k, plugin |-> "", cause |-> ""]
NoCall == [op |-> "none", token |-> ForeignToken, ret |-> "none", before |-> <<>>]

\* No instance came before the first.
NoPrev == [ext |-> "none", data |-> Unset, first_load |-> "'True'",
           noPrior |-> FALSE, loaded |-> FALSE, saved |-> FALSE]

\* Names of scheduled jobs: "ping" is this plugin's, "tick" may have been
\* registered with the shared scheduler by somebody else.
JobNames == {"ping", "tick"}

\* No facade call was made yet.
NoTask == [op |-> "none", name |-> "none", ret |-> FALSE, before |-> {},
           calls |-> <<>>, follows |-> FALSE]

\* No user hook raised.
NoRaise == [in |-> "none", hook |-> "none", exc |-> "none"]

\* The exceptions a user hook raises in the model: one of the plugin's own
\* and one that the except clauses of the core name.
HookErrors == {"HookError", "FileNotFoundError"}

\* The extension the class attribute save_type gives the data file.
ClassExt(st) == IF st \in Falsy \/ st = Unset THEN "json" ELSE st

\* The state before the host constructs the plugin: the subclass has set its
\* class attributes, the file system is in any state a former run left.
Init ==
    /\ pc = "new"
    /\ hook = "none"
    /\ name \in NameValues
    /\ version \in VersionValues
    /\ save_type \in SaveTypeValues
    /\ dependencies \in DependencyValues
    /\ first_load = "'True'"
    /\ debug = FALSE
    /\ kwdApplied = {}
    /\ storeExt = "none"
    /\ workSpace = FALSE
    /\ data = Unset
    /\ handlers = <<>>
    /\ workDir \in {"absent", "dir", "file"}
    /\ files \in [Exts -> {"none", "corrupt", "d1"}]
    /\ (workDir # "dir" => files = NoFiles)
    \* only the files this instance's class can name are populated
    /\ \A e \in Exts : files[e] # "none" => e \in {"json", ClassExt(save_type)}
    \* The handler registry and the persistence of a plugin do not touch each
    \* other's state: a plugin that uses the bus is explored in one file
    \* system (a work directory holding a loadable json file), the variety of
    \* file systems and class attributes with a plugin that does not.
    /\ ioFault \in BOOLEAN
    /\ usesBus \in BOOLEAN
    /\ usesScheduler \in BOOLEAN
    /\ ~(usesBus /\ usesScheduler)
    /\ jobs \in (IF usesScheduler THEN {{}, {"tick"}} ELSE {{}})
    /\ expectedJobs = jobs
    /\ lastTask = NoTask
    /\ added = {}
    /\ hookRaised = NoRaise
    /\ (usesBus \/ usesScheduler) =>
                  /\ name = "Echo" /\ version = "1.0" /\ dependencies = "{}"
                  /\ save_type = "json" /\ workDir = "dir"
                  /\ files = [NoFiles EXCEPT !["json"] = "d1"]
                  /\ ~ioFault
    /\ classAttrs = [save_type |-> save_type, dependencies |-> dependencies]
    /\ gen = 1
    /\ prev = NoPrev
    /\ preWorkDir = workDir
    /\ filesAtUnload = files
    /\ preFiles = files
    /\ active = {}
    /\ nextToken = 1
    /\ unsubCalls = [t \in Tokens |-> 0]
    /\ ctorErr = "none"
    /\ onloadErr = "none"
    /\ unloadErr = NoErr
    /\ olIdx = 0
    /\ ulIdx = 0
    /\ olLog = <<>>
    /\ ulLog = <<>>
    /\ loadCalls = <<>>
    /\ healedExt = "none"
    /\ saveCalls = <<>>
    /\ lastCall = NoCall
    /\ preUnload = {}
    /\ delivered = {}

\* ------------------------------------------------------------ construction
\* self._data_path: workDir / "<name>.<save_type>".
DataPathExt(st) == st

\* Path.exists() of the work directory and of the data file.
WorkPathExists(wd) == wd # "absent"
DataPathExists(wd, fs, ext) == wd = "dir" /\ fs[ext] # "none"

\* first_load computed from the work directory alone (the elif of line 127
\* left out).
FirstLoadDirOnly(wd, fs, ext) ==
    IF ~WorkPathExists(wd) THEN "True" ELSE "False"

\* The first_load flag as lines 123-128 compute it.
FirstLoad(wd, fs, ext) ==
    IF ~WorkPathExists(wd) THEN "True"
    ELSE IF ~DataPathExists(wd, fs, ext) THEN "True"
    ELSE "False"

\* The directory test left out.
IsDirAlways(wd) == TRUE

\* Path.is_dir() of the work directory (line 130).
IsDir(wd) == wd = "dir"

\* The first check of __init__ that fails, or "none": lines 95-98 read
\* self.name and self.version, which raises AttributeError for an attribute
\* the subclass never assigned.
IdentityError(n, v) ==
    IF n = Unset THEN "AttributeError"
    ELSE IF n \in Falsy THEN "ValueError"
    ELSE IF v = Unset THEN "AttributeError"
    ELSE IF v \in Falsy THEN "ValueError"
    ELSE "none"

\* __init__ (lines 94-134). The plugin's source file lies below PLUGINS_DIR,
\* so that lines 110-120 resolve self_path, _work_path and _data_path.
Construct ==
    /\ pc = "new"
    /\ \E dbg \in BOOLEAN, kwd \in Kwds :
        LET idErr == IdentityError(name, version)
            st1 == IF kwd.save_type # Unset THEN kwd.save_type ELSE save_type
            st2 == IF st1 \in Falsy THEN "json" ELSE st1
            dep1 == dependencies
            dep2 == IF dep1 \in Falsy THEN "{}" ELSE dep1
            applied == {k \in {"save_type"} : kwd[k] # Unset}
            ext == DataPathExt(st2)
            wd2 == IF WorkPathExists(workDir) THEN workDir ELSE "dir"
        IN  IF idErr # "none"
            THEN /\ ctorErr' = idErr
                 /\ pc' = "failed"
                 /\ UNCHANGED <<save_type, dependencies, first_load, debug,
                                kwdApplied, storeExt, workSpace, data, workDir>>
            ELSE IF dep1 = Unset
            THEN \* line 106 reads self.dependencies
                 /\ ctorErr' = "AttributeError"
                 /\ pc' = "failed"
                 /\ save_type' = st2
                 /\ kwdApplied' = applied
                 /\ UNCHANGED <<dependencies, first_load, debug, storeExt,
                                workSpace, data, workDir>>
            ELSE /\ save_type' = st2
                 /\ dependencies' = dep2
                 /\ kwdApplied' = applied
                 /\ debug' = dbg
                 /\ first_load' = FirstLoad(workDir, files, ext)
                 /\ workDir' = wd2
                 /\ IF ~IsDir(wd2)
                    THEN /\ ctorErr' = "PluginLoadError"
                         /\ pc' = "failed"
                         /\ UNCHANGED <<storeExt, workSpace, data>>
                    ELSE /\ ctorErr' = "none"
                         /\ pc' = "idle"
                         /\ storeExt' = ext
                         /\ workSpace' = TRUE
                         /\ data' = "{}"
    /\ UNCHANGED <<hook, name, version, handlers, usesBus, files, ioFault,
                   preVars, schedVars, hookRaised,
                   busVars, onloadVars, unloadVars, lastCall>>

\* --------------------------------------------------------- plugin code runs
\* Plugin code runs between the lifecycle calls and inside the four hooks
\* (other coroutines run while __onload__ / __unload__ are suspended in one).
UserCanRun == pc = "idle" \/ hook # "none"

UserCanUseBus == UserCanRun /\ usesBus

\* Entries of a list, as a set.
Range(s) == {s[i] : i \in 1..Len(s)}

\* ------------------------------------------------------------------- store
\* UniversalLoader.load(): the outcomes of loading the file of extension ext.
\* An unknown extension is a format error, a missing or unparseable file a
\* load error; a read the file system refuses is a load error as well.
LoadOutcomes(ext, fs, fault) ==
    IF ext \notin KnownFormats
    THEN {[err |-> "FileTypeUnknownError", data |-> Unset]}
    ELSE IF fault
    THEN {[err |-> "LoadError", data |-> Unset]}
    ELSE IF fs[ext] = "none"
    THEN {[err |-> "FileNotFoundError", data |-> Unset],
          [err |-> "LoadError", data |-> Unset]}
    ELSE IF fs[ext] = "corrupt"
    THEN {[err |-> "LoadError", data |-> Unset]}
    ELSE {[err |-> "none", data |-> fs[ext]]}

\* UniversalLoader.save(): the errors a save to extension ext can end with
\* ("none": the file was written).
SaveOutcomes(ext, fault) ==
    IF ext \notin KnownFormats
    THEN {"FileTypeUnknownError"}
    ELSE IF fault
    THEN {"SaveError", "FileNotFoundError", "PermissionError"}
    ELSE {"none"}

\* ------------------------------------------------------------- __onload__
\* The hooks of __onload__ the other way round.
OnloadOrderOnLoadFirst == <<"load", "on_load", "_init_">>

\* The steps of __onload__ in the order of lines 172-182.
OnloadOrder == <<"load", "_init_", "on_load">>

\* The exceptions the except clause of line 178 catches.
CaughtOnLoad == {"FileTypeUnknownError", "LoadError", "FileNotFoundError"}

\* The file line 179 resets: workDir / "<name>.json".
HealExt(ext) == "json"

\* open(path, 'w').write('{}'): what it raises ("none": written).
WriteOutcome(fault) == IF fault THEN "PermissionError" ELSE "none"

\* Lines 181-182 are outside the try of lines 172-180: what __onload__
\* raises when a hook raised e.
OnloadHookError(e) == e

OnloadCall ==
    /\ pc = "idle"
    /\ olIdx = 0
    /\ pc' = "onload"
    /\ olIdx' = 1
    /\ UNCHANGED <<hook, attrVars, data, handlers, fsVars, preVars, schedVars, hookRaised, busVars,
                   ctorErr, onloadErr, olLog, loadCalls, healedExt,
                   unloadVars, lastCall>>

\* __onload__ raises e to its caller.
OnloadRaise(e) ==
    /\ onloadErr' = e
    /\ pc' = "idle"
    /\ olIdx' = olIdx

\* __onload__ goes on with the step after olIdx, or returns after the last.
OnloadAdvance ==
    /\ onloadErr' = onloadErr
    /\ olIdx' = olIdx + 1
    /\ pc' = IF olIdx = Len(OnloadOrder) THEN "idle" ELSE "onload"

\* Lines 172-180: load, and on a caught failure reset the file and load again.
\* self.data is the store line 133 built (nothing here assigns a raw dict to
\* it), so the isinstance test of line 173 is false.
OlLoad ==
    /\ pc = "onload" /\ hook = "none"
    /\ olIdx \in 1..Len(OnloadOrder) /\ OnloadOrder[olIdx] = "load"
    /\ olLog' = Append(olLog, "load")
    /\ \E r1 \in LoadOutcomes(storeExt, files, ioFault) :
        IF r1.err = "none"
        THEN /\ loadCalls' = <<r1.err>>
             /\ data' = r1.data
             /\ UNCHANGED <<files, healedExt>>
             /\ OnloadAdvance
        ELSE IF r1.err \notin CaughtOnLoad
        THEN /\ loadCalls' = <<r1.err>>
             /\ UNCHANGED <<data, files, healedExt>>
             /\ OnloadRaise(r1.err)
        ELSE IF WriteOutcome(ioFault) # "none"
            THEN /\ loadCalls' = <<r1.err>>
                 /\ UNCHANGED <<data, files, healedExt>>
                 /\ OnloadRaise(WriteOutcome(ioFault))
            ELSE LET fs2 == [files EXCEPT ![HealExt(storeExt)] = "{}"]
                 IN  /\ files' = fs2
                     /\ healedExt' = HealExt(storeExt)
                     /\ \E r2 \in LoadOutcomes(storeExt, fs2, ioFault) :
                         /\ loadCalls' = <<r1.err, r2.err>>
                         /\ IF r2.err = "none"
                            THEN data' = r2.data /\ OnloadAdvance
                            ELSE data' = data /\ OnloadRaise(r2.err)
    /\ UNCHANGED <<hook, attrVars, handlers, workDir, ioFault, preVars, schedVars, hookRaised,
                   busVars, ctorErr, unloadVars, lastCall>>

\* Lines 181-182: the _init_ hook is handed to a worker thread and awaited,
\* then on_load is awaited.
OlHookStart ==
    /\ pc = "onload" /\ hook = "none"
    /\ olIdx \in 1..Len(OnloadOrder)
    /\ OnloadOrder[olIdx] \in {"_init_", "on_load"}
    /\ hook' = OnloadOrder[olIdx]
    /\ olLog' = Append(olLog, OnloadOrder[olIdx])
    /\ UNCHANGED <<pc, attrVars, data, handlers, fsVars, preVars, schedVars, hookRaised, busVars,
                   ctorErr, onloadErr, olIdx, loadCalls, healedExt,
                   unloadVars, lastCall>>

\* A hook of __onload__ returns, or raises.
OlHookEnd ==
    /\ pc = "onload" /\ hook # "none"
    /\ hook' = "none"
    /\ \/ \E e \in HookErrors :
            /\ olLog' = Append(olLog, "raise")
            /\ hookRaised' = [in |-> "onload", hook |-> hook, exc |-> e]
            /\ OnloadRaise(OnloadHookError(e))
       \/ /\ olLog' = Append(olLog, "return")
          /\ hookRaised' = hookRaised
          /\ OnloadAdvance
    /\ UNCHANGED <<attrVars, data, handlers, fsVars, preVars, schedVars, busVars,
                   ctorErr, loadCalls, healedExt, unloadVars, lastCall>>

\* ---------------------------------------------------------------- handlers
\* bus.unsubscribe is called for the entries of hs in turn; calls 1..k return
\* and, when k < Len(hs), call k+1 raises, which ends the loop of line 301.
RevokedTokens(hs, k) == {hs[i] : i \in 1..k}

CallsMade(hs, k) == IF k < Len(hs) THEN k + 1 ELSE k

CountIn(hs, n, t) == Cardinality({i \in 1..n : hs[i] = t})

\* unregister_handlers (lines 299-302) on the list hs with k returning calls.
RevokeActive(hs, k, act) == act \ RevokedTokens(hs, k)

RevokeCalls(hs, k, calls) ==
    [t \in Tokens |-> calls[t] + CountIn(hs, CallsMade(hs, k), t)]

RevokeErr(hs, k) == IF k < Len(hs) THEN "BusError" ELSE "none"

RECURSIVE SumUpTo(_, _)
SumUpTo(calls, n) == IF n = 0 THEN 0 ELSE calls[n] + SumUpTo(calls, n - 1)
SumCalls(calls) == SumUpTo(calls, MaxTokens)

\* A register_handler that does not record the token.
RegisterListForget(hs, t) == hs

\* register_handler (lines 279-281): the list after the bus returned token t.
RegisterList(hs, t) == Append(hs, t)

\* unregister_handler dropping the token from the list, the bus not told.
UnregisterListRemove(hs, t) == SelectSeq(hs, LAMBDA x : x # t)

\* unregister_handler (lines 293-296): its result and the list it leaves.
UnregisterRet(hs, t) == t \in Range(hs)

UnregisterList(hs, t) == IF t \in Range(hs) THEN Append(hs, t) ELSE hs

RegisterHandler ==
    /\ UserCanUseBus
    /\ nextToken <= MaxTokens
    /\ Len(handlers) < MaxHandlers
    /\ active' = active \cup {nextToken}
    /\ nextToken' = nextToken + 1
    /\ handlers' = RegisterList(handlers, nextToken)
    /\ lastCall' = [op |-> "register_handler", token |-> nextToken,
                    ret |-> "token", before |-> handlers]
    /\ UNCHANGED <<pc, hook, attrVars, data, fsVars, preVars, schedVars, hookRaised, unsubCalls,
                   ctorErr, onloadVars, unloadVars>>

UnregisterHandler ==
    /\ UserCanUseBus
    /\ \E t \in (1..(nextToken - 1)) \cup {ForeignToken} :
        /\ Len(UnregisterList(handlers, t)) <= MaxHandlers
        /\ handlers' = UnregisterList(handlers, t)
        /\ lastCall' = [op |-> "unregister_handler", token |-> t,
                        ret |-> IF UnregisterRet(handlers, t) THEN "True"
                                ELSE "False",
                        before |-> handlers]
    /\ UNCHANGED <<pc, hook, attrVars, data, fsVars, preVars, schedVars, hookRaised, busVars,
                   ctorErr, onloadVars, unloadVars>>

\* Plugin code calls unregister_handlers itself.
UnregisterHandlers ==
    /\ UserCanUseBus
    /\ SumCalls(unsubCalls) + Len(handlers) <= MaxUnsubCalls
    /\ \E k \in 0..Len(handlers) :
        /\ active' = RevokeActive(handlers, k, active)
        /\ unsubCalls' = RevokeCalls(handlers, k, unsubCalls)
        /\ lastCall' = [op |-> "unregister_handlers", token |-> ForeignToken,
                        ret |-> RevokeErr(handlers, k), before |-> handlers]
    /\ UNCHANGED <<pc, hook, attrVars, data, handlers, fsVars, preVars, schedVars, hookRaised,
                   nextToken, ctorErr, onloadVars, unloadVars>>

\* publish_sync / publish_async (lines 244-265) called by a close hook: the
\* bus delivers the event to every live subscription.
PublishFromCloseHook ==
    /\ hook \in {"_close_", "on_close"}
    /\ delivered # delivered \cup active
    /\ delivered' = delivered \cup active
    /\ lastCall' = NoCall
    /\ UNCHANGED <<pc, hook, attrVars, data, handlers, fsVars, preVars, schedVars, hookRaised,
                   busVars, ctorErr, onloadVars, unloadErr, ulIdx, ulLog,
                   saveCalls, preUnload, filesAtUnload>>

\* Plugin code changes the in-memory data.
NewData == "d2"

SetData ==
    /\ UserCanRun
    /\ data # NewData
    /\ data' = NewData
    /\ lastCall' = NoCall
    /\ UNCHANGED <<pc, hook, attrVars, handlers, fsVars, preVars, schedVars, hookRaised, busVars,
                   ctorErr, onloadVars, unloadVars>>

\* ------------------------------------------------------------- __unload__
\* __unload__ with the close hook run before the handlers are revoked.
UnloadOrderCloseFirst == <<"_close_", "revoke", "on_close", "persist">>

\* The persist step before the close hooks.
UnloadOrderPersistFirst == <<"revoke", "persist", "_close_", "on_close">>

\* The steps of __unload__ in the order of lines 150-158.
UnloadOrder == <<"revoke", "_close_", "on_close", "persist">>

\* The exceptions the except clause of line 159 catches.
CaughtOnSave == {"FileTypeUnknownError", "SaveError", "FileNotFoundError"}

\* The persist step without the debug test.
SavesAlways(dbg) == TRUE

\* Line 154: whether the persist step calls save.
SavesOnUnload(dbg) == ~dbg

\* Lines 159-160: what __unload__ raises when save raised e.
SaveError(e, plugin) ==
    IF e \in CaughtOnSave
    THEN [kind |-> "RuntimeError", plugin |-> plugin, cause |-> e]
    ELSE Err(e)

\* A hook error treated like a save error.
UnloadHookErrorWrapped(e, plugin) == SaveError(e, plugin)

\* Lines 151-152 are outside the try of lines 153-160: what __unload__
\* raises when a hook raised e.
UnloadHookError(e, plugin) == Err(e)

\* The unload steps with a scheduler that is emptied.
JobsCleared(js) == {}

\* Lines 142-160 make no call to the scheduler: the job set after a step
\* of __unload__.
JobsAfterUnload(js) == js

UnloadCall ==
    /\ pc = "idle"
    /\ pc' = "unload"
    /\ ulIdx' = 1
    /\ preUnload' = 1..(nextToken - 1)
    /\ filesAtUnload' = files
    /\ lastCall' = NoCall
    /\ UNCHANGED <<hook, attrVars, data, handlers, fsVars, preVars, schedVars, hookRaised, busVars,
                   ctorErr, onloadVars, unloadErr, ulLog, saveCalls,
                   delivered>>

\* __unload__ raises e to its caller.
UnloadRaise(e) ==
    /\ unloadErr' = e
    /\ pc' = "unloaded"
    /\ ulIdx' = ulIdx

\* __unload__ goes on with the step after ulIdx, or returns after the last.
UnloadAdvance ==
    /\ unloadErr' = unloadErr
    /\ ulIdx' = ulIdx + 1
    /\ pc' = IF ulIdx = Len(UnloadOrder) THEN "unloaded" ELSE "unload"

\* Line 150: self.unregister_handlers().
UlRevoke ==
    /\ pc = "unload" /\ hook = "none"
    /\ ulIdx \in 1..Len(UnloadOrder) /\ UnloadOrder[ulIdx] = "revoke"
    /\ ulLog' = Append(ulLog, "revoke")
    /\ \E k \in 0..Len(handlers) :
        /\ active' = RevokeActive(handlers, k, active)
        /\ unsubCalls' = RevokeCalls(handlers, k, unsubCalls)
        /\ IF RevokeErr(handlers, k) = "none"
           THEN UnloadAdvance
           ELSE UnloadRaise(Err(RevokeErr(handlers, k)))
    /\ lastCall' = NoCall
    /\ jobs' = JobsAfterUnload(jobs)
    /\ UNCHANGED <<lastTask, added, expectedJobs>>
    /\ UNCHANGED <<hook, attrVars, data, handlers, fsVars, preVars, hookRaised,
                   nextToken, ctorErr, onloadVars, saveCalls, preUnload,
                   delivered, filesAtUnload>>

\* Lines 151-152: the _close_ hook is handed to a worker thread and awaited,
\* then on_close is awaited.
UlHookStart ==
    /\ pc = "unload" /\ hook = "none"
    /\ ulIdx \in 1..Len(UnloadOrder)
    /\ UnloadOrder[ulIdx] \in {"_close_", "on_close"}
    /\ hook' = UnloadOrder[ulIdx]
    /\ ulLog' = Append(ulLog, UnloadOrder[ulIdx])
    /\ lastCall' = NoCall
    /\ UNCHANGED <<pc, attrVars, data, handlers, fsVars, preVars, schedVars, hookRaised, busVars,
                   ctorErr, onloadVars, unloadErr, ulIdx, saveCalls,
                   preUnload, delivered, filesAtUnload>>

\* A hook of __unload__ returns, or raises.
UlHookEnd ==
    /\ pc = "unload" /\ hook # "none"
    /\ hook' = "none"
    /\ \/ \E e \in HookErrors :
            /\ ulLog' = Append(ulLog, "raise")
            /\ hookRaised' = [in |-> "unload", hook |-> hook, exc |-> e]
            /\ UnloadRaise(UnloadHookError(e, name))
       \/ /\ ulLog' = Append(ulLog, "return")
          /\ hookRaised' = hookRaised
          /\ UnloadAdvance
    /\ lastCall' = NoCall
    /\ UNCHANGED <<attrVars, data, handlers, fsVars, preVars, schedVars, busVars,
                   ctorErr, onloadVars, saveCalls, preUnload, delivered,
                   filesAtUnload>>

\* Lines 153-160: the debug dump, or save.
UlPersist ==
    /\ pc = "unload" /\ hook = "none"
    /\ ulIdx \in 1..Len(UnloadOrder) /\ UnloadOrder[ulIdx] = "persist"
    /\ ulLog' = Append(ulLog, "persist")
    /\ IF ~SavesOnUnload(debug)
       THEN /\ UNCHANGED <<files, saveCalls>>
            /\ UnloadAdvance
       ELSE \E e \in SaveOutcomes(storeExt, ioFault) :
            /\ saveCalls' = Append(saveCalls, data)
            /\ IF e = "none"
               THEN /\ files' = [files EXCEPT ![storeExt] = data]
                    /\ UnloadAdvance
               ELSE /\ files' = files
                    /\ UnloadRaise(SaveError(e, name))
    /\ lastCall' = NoCall
    /\ jobs' = JobsAfterUnload(jobs)
    /\ UNCHANGED <<lastTask, added, expectedJobs>>
    /\ UNCHANGED <<hook, attrVars, data, handlers, workDir, ioFault, preVars, hookRaised,
                   busVars, ctorErr, onloadVars, preUnload, delivered,
                   filesAtUnload>>

\* ----------------------------------------------------------- scheduled tasks
\* The scheduler, as its interface is specified: add_job registers the job
\* and returns True when no job of that name is registered, and returns False
\* otherwise; remove_job removes the job of that name and returns True when
\* there is one, and returns False otherwise.
SchedulerCall(js, call) ==
    IF call.op = "add_job"
    THEN [jobs |-> js \cup {call.job.name}, ret |-> call.job.name \notin js]
    ELSE [jobs |-> js \ {call.name}, ret |-> call.name \in js]

\* The scheduler after the calls of a sequence, with the value the last of
\* them returned.
RECURSIVE SchedulerCalls(_, _)
SchedulerCalls(js, calls) ==
    IF Len(calls) = 1
    THEN SchedulerCall(js, calls[1])
    ELSE SchedulerCalls(SchedulerCall(js, calls[1]).jobs, Tail(calls))

\* Line 221: the run count of a new job.
InitialRunCount == 0

\* Lines 216-227: the job descriptor add_scheduled_task builds.
JobInfo(nm) == [name |-> nm, run_count |-> InitialRunCount]

\* A facade that calls add_job again after the first call.
AddForwardRetry(info) ==
    <<[op |-> "add_job", job |-> info], [op |-> "add_job", job |-> info]>>

\* Line 228: the scheduler calls add_scheduled_task makes.
AddForward(info) == <<[op |-> "add_job", job |-> info]>>

\* Line 241: the scheduler calls remove_scheduled_task makes.
RemoveForward(nm) == <<[op |-> "remove_job", name |-> nm]>>

UserCanSchedule == UserCanRun /\ usesScheduler

\* Lines 184-228: add_scheduled_task(job_func, name, interval, ...).
AddScheduledTask ==
    /\ UserCanSchedule
    /\ \E nm \in JobNames :
        LET calls == AddForward(JobInfo(nm))
            res == SchedulerCalls(jobs, calls)
        IN /\ jobs' = res.jobs
           /\ lastTask' = [op |-> "add_scheduled_task", name |-> nm,
                           ret |-> res.ret, before |-> jobs,
                           calls |-> calls, follows |-> FALSE]
           /\ added' = IF res.ret THEN added \cup {nm} ELSE added
           /\ expectedJobs' = jobs \cup {nm}
    /\ UNCHANGED <<pc, hook, attrVars, data, handlers, fsVars, preVars,
                   hookRaised, busVars, ctorErr, onloadVars, unloadVars,
                   lastCall>>

\* Lines 230-241: remove_scheduled_task(task_name).
RemoveScheduledTask ==
    /\ UserCanSchedule
    /\ \E nm \in JobNames :
        LET calls == RemoveForward(nm)
            res == SchedulerCalls(jobs, calls)
        IN /\ jobs' = res.jobs
           /\ lastTask' = [op |-> "remove_scheduled_task", name |-> nm,
                           ret |-> res.ret, before |-> jobs,
                           calls |-> calls,
                           follows |-> /\ lastTask.op = "add_scheduled_task"
                                       /\ lastTask.name = nm
                                       /\ lastTask.name \notin lastTask.before]
           /\ added' = added \ {nm}
           /\ expectedJobs' = jobs \ {nm}
    /\ UNCHANGED <<pc, hook, attrVars, data, handlers, fsVars, preVars,
                   hookRaised, busVars, ctorErr, onloadVars, unloadVars,
                   lastCall>>

\* ------------------------------------------------------------ a new instance
\* The host drops the unloaded instance and is about to construct a fresh one
\* of the same class on the same paths: the class attributes are those of
\* the class body again, the file system and the bus are as they were left.
Reopen ==
    /\ pc = "unloaded"
    /\ ~usesBus /\ ~usesScheduler
    /\ gen < MaxInstances
    /\ gen' = gen + 1
    /\ prev' = [ext |-> storeExt, data |-> data, first_load |-> first_load,
                noPrior |-> preFiles[storeExt] = "none",
                loaded |-> (olIdx > Len(OnloadOrder) /\ onloadErr = "none"),
                saved |-> (~debug /\ unloadErr = NoErr
                           /\ ulIdx > Len(UnloadOrder))]
    /\ pc' = "new"
    /\ save_type' = classAttrs.save_type
    /\ dependencies' = classAttrs.dependencies
    /\ first_load' = "'True'"
    /\ debug' = FALSE
    /\ kwdApplied' = {}
    /\ storeExt' = "none"
    /\ workSpace' = FALSE
    /\ data' = Unset
    /\ handlers' = <<>>
    /\ preWorkDir' = workDir
    /\ preFiles' = files
    /\ filesAtUnload' = files
    /\ ctorErr' = "none"
    /\ onloadErr' = "none"
    /\ unloadErr' = NoErr
    /\ olIdx' = 0
    /\ ulIdx' = 0
    /\ olLog' = <<>>
    /\ ulLog' = <<>>
    /\ loadCalls' = <<>>
    /\ healedExt' = "none"
    /\ saveCalls' = <<>>
    /\ lastCall' = NoCall
    /\ preUnload' = {}
    /\ delivered' = {}
    /\ lastTask' = NoTask
    /\ added' = {}
    /\ hookRaised' = NoRaise
    /\ UNCHANGED <<hook, name, version, usesBus, fsVars, busVars, classAttrs,
                   usesScheduler, jobs, expectedJobs>>

Next ==
    \/ Construct
    \/ Reopen
    \/ AddScheduledTask
    \/ RemoveScheduledTask
    \/ OnloadCall
    \/ OlLoad
    \/ OlHookStart
    \/ OlHookEnd
    \/ RegisterHandler
    \/ UnregisterHandler
    \/ UnregisterHandlers
    \/ PublishFromCloseHook
    \/ SetData
    \/ UnloadCall
    \/ UlRevoke
    \/ UlHookStart
    \/ UlHookEnd
    \/ UlPersist

Spec == Init /\ [][Next]_vars

\* ===================================================================== claims
IsPrefix(a, b) == Len(a) <= Len(b) /\ a = SubSeq(b, 1, Len(a))

\* The tokens register_handler returned to this instance.
OwnTokens == 1..(nextToken - 1)

\* The steps of an __unload__ that runs to its end, as the specification
\* orders them.
FullUnloadLog ==
    <<"revoke", "_close_", "return", "on_close", "return", "persist">>

\* ------------------------------------------------------------------------ C1
\* C1: after __unload__ has returned or raised, the bus holds no live
\* subscription made through this instance's register_handler.
C1_NoSubscriptionAfterUnload ==
    pc = "unloaded" => active \cap OwnTokens = {}

\* ------------------------------------------------------------------------ C2
\* C2: the steps of one __unload__ happen in the order revoke, _close_,
\* on_close, persist, each after the one before has finished: the log of the
\* call is a prefix of that order (or such a prefix ended by a hook raising),
\* a close hook runs only between its own start and end, every handler
\* registered before the call is revoked once the first hook has started,
\* and no event a close hook publishes reaches such a handler.
C2_UnloadStepsInOrder ==
    /\ \/ IsPrefix(ulLog, FullUnloadLog)
       \/ /\ Len(ulLog) >= 2
          /\ ulLog[Len(ulLog)] = "raise"
          /\ ulLog[Len(ulLog) - 1] \in {"_close_", "on_close"}
          /\ IsPrefix(SubSeq(ulLog, 1, Len(ulLog) - 1), FullUnloadLog)
    /\ (pc = "unload" /\ hook # "none") =>
           (ulLog # <<>> /\ ulLog[Len(ulLog)] = hook)
    /\ Len(ulLog) >= 2 => active \cap preUnload = {}
    /\ delivered \cap preUnload = {}

\* An __unload__ ran to its end with handlers registered before it, and an
\* event published by a close hook was delivered (to a handler registered
\* during the hook).
C2_Witness ==
    /\ pc = "unloaded"
    /\ ulLog = FullUnloadLog
    /\ preUnload # {}
    /\ delivered # {}

\* ------------------------------------------------------------------------ C3
\* C3: after any register_handler calls and unregister_handler calls on some
\* of the tokens, an unregister_handlers call that returns leaves no live
\* subscription of this instance on the bus.
C3_BulkRevokeLeavesNone ==
    (lastCall.op = "unregister_handlers" /\ lastCall.ret = "none")
        => active \cap OwnTokens = {}

\* unregister_handlers returned after two registrations and an
\* unregister_handler call that knew its token.
C3_Witness ==
    /\ lastCall.op = "unregister_handlers"
    /\ lastCall.ret = "none"
    /\ Cardinality(Range(lastCall.before)) >= 2
    /\ Cardinality(Range(lastCall.before)) < Len(lastCall.before)

\* ------------------------------------------------------------------------ C4
\* C4: unregister_handler(token) returns True exactly when the token is
\* tracked; after True the token is gone from the tracked list, which is one
\* shorter; after False the list is as it was.
C4_UnregisterRemovesToken ==
    lastCall.op = "unregister_handler" =>
        /\ lastCall.ret = "True" <=> lastCall.token \in Range(lastCall.before)
        /\ lastCall.ret = "True" =>
               /\ lastCall.token \notin Range(handlers)
               /\ Len(handlers) = Len(lastCall.before) - 1
        /\ lastCall.ret = "False" => handlers = lastCall.before

\* ------------------------------------------------------------------------ C5
\* C5: when the first load of __onload__ fails with a failure the except
\* clause recognizes (and the file system lets the reset file be written),
\* the empty object is written to the data file the store is bound to and
\* the load is retried once; for a save_type whose format the store knows
\* the retry succeeds and __onload__ goes on to the hooks.
C5_SelfHealResetsDataFile ==
    (Len(loadCalls) >= 1 /\ loadCalls[1] \in CaughtOnLoad /\ ~ioFault) =>
        /\ healedExt = storeExt
        /\ Len(loadCalls) = 2
        /\ storeExt \in KnownFormats =>
               /\ loadCalls[2] = "none"
               /\ onloadErr = "none"
               /\ olIdx >= 2

\* ------------------------------------------------------------------------ C6
\* C6: when the load fails and the retry fails too, __onload__ raises
\* RuntimeError, has called load twice and has started neither hook.
C6_SecondFailureIsRuntimeError ==
    (Len(loadCalls) = 2 /\ loadCalls[2] # "none") =>
        /\ onloadErr = "RuntimeError"
        /\ pc # "onload"
        /\ olLog = <<"load">>

\* ------------------------------------------------------------------------ C7
\* C7 as claimed: a debug __unload__ never calls save and leaves the files as
\* they were; a non-debug __unload__ always calls save, with the in-memory
\* data, whatever the revocation and the close hooks did.
C7_NonDebugAlwaysSaves ==
    pc = "unloaded" =>
        IF debug
        THEN saveCalls = <<>> /\ files = filesAtUnload
        ELSE saveCalls = <<data>>

\* The revocation and both close hooks returned.
ReachedPersist == IsPrefix(SubSeq(FullUnloadLog, 1, 5), ulLog)

\* C7 as amended: a debug __unload__ never calls save and leaves the files as
\* they were; a non-debug __unload__ calls save, once and with the in-memory
\* data, exactly when the revocation and both close hooks returned, and
\* otherwise calls no save and leaves the files as they were.
C7_SavesUnlessDebugOrRaised ==
    pc = "unloaded" =>
        IF debug
        THEN saveCalls = <<>> /\ files = filesAtUnload
        ELSE IF ReachedPersist
        THEN saveCalls = <<data>>
        ELSE saveCalls = <<>> /\ files = filesAtUnload

\* A non-debug __unload__ saved data that plugin code had changed.
C7_Witness ==
    /\ pc = "unloaded"
    /\ ~debug
    /\ data = NewData
    /\ saveCalls = <<NewData>>
    /\ files[storeExt] = NewData
    /\ filesAtUnload[storeExt] # NewData

\* ------------------------------------------------------------------------ C8
\* C8: whatever error save ends with in a non-debug __unload__, the caller
\* gets a RuntimeError carrying the plugin name and that error; save is
\* called once.
C8_SaveFailureIsRuntimeError ==
    (pc = "unloaded" /\ saveCalls # <<>> /\ unloadErr # NoErr) =>
        /\ unloadErr.kind = "RuntimeError"
        /\ unloadErr.plugin = name
        /\ unloadErr.cause \in SaveOutcomes(storeExt, ioFault)
        /\ Len(saveCalls) = 1

\* ------------------------------------------------------------------------ C9
\* C9: constructing a plugin whose name or version is unset or empty raises
\* ValueError before anything else is done (no directory made, no keyword
\* argument applied, no store or work space built); with a name and a version
\* (the other class attributes set and the work directory path not taken by
\* a file) construction succeeds and the work directory exists.
IdentityMissing ==
    name \in Falsy \cup {Unset} \/ version \in Falsy \cup {Unset}

C9_MissingIdentityIsValueError ==
    pc # "new" =>
        /\ IdentityMissing =>
               /\ ctorErr = "ValueError"
               /\ workDir = preWorkDir
               /\ kwdApplied = {}
               /\ storeExt = "none"
               /\ ~workSpace
        /\ (~IdentityMissing /\ dependencies # Unset /\ preWorkDir # "file") =>
               /\ ctorErr = "none"
               /\ workDir = "dir"

\* ----------------------------------------------------------------------- C10
\* C10: in every state after a successful construction first_load is True
\* exactly when, just before construction, the work directory or the data
\* file did not exist; so no later operation changes it.
C10_FirstLoadFlag ==
    pc \notin {"new", "failed"} =>
        first_load = IF preWorkDir = "absent" \/ preFiles[storeExt] = "none"
                     THEN "True" ELSE "False"

\* The work directory existed without the data file; the instance was
\* loaded and unloaded and wrote the file, and first_load is still True.
C10_Witness ==
    /\ pc = "unloaded"
    /\ first_load = "True"
    /\ preWorkDir = "dir"
    /\ files[storeExt] # "none"
    /\ olIdx > Len(OnloadOrder)

\* ----------------------------------------------------------------------- C11
\* C11: every instance whose construction completed has a work directory
\* that is a directory; a construction that finds the work directory path
\* taken by something that is no directory raises PluginLoadError and builds
\* neither the store nor the work space.
C11_WorkDirIsDirectory ==
    /\ pc \notin {"new", "failed"} => workDir = "dir"
    /\ (pc # "new" /\ ~IdentityMissing /\ dependencies # Unset
            /\ preWorkDir = "file") =>
           /\ pc = "failed"
           /\ ctorErr = "PluginLoadError"
           /\ storeExt = "none"
           /\ ~workSpace

\* A construction failed on a work directory path that is a file.
C11_Witness ==
    /\ pc = "failed"
    /\ preWorkDir = "file"
    /\ ctorErr = "PluginLoadError"

\* ----------------------------------------------------------------------- C12
\* The load of __onload__ has just succeeded (no hook has run yet).
JustLoaded ==
    /\ pc = "onload" /\ hook = "none" /\ olIdx = 2
    /\ loadCalls # <<>> /\ loadCalls[Len(loadCalls)] = "none"

\* The part of the round trip that holds whatever the format: a plugin with
\* no prior data is constructed with first_load True, a load that succeeds
\* without prior data yields the empty object, and when an instance was
\* unloaded out of debug mode with its save done, a fresh instance bound to
\* the same data file is constructed with first_load False and its load
\* yields the data the former instance held at its unload.
RoundTripWhenLoaded ==
    /\ (pc \notin {"new", "failed"} /\ preFiles[storeExt] = "none") =>
           first_load = "True"
    /\ (JustLoaded /\ preFiles[storeExt] = "none") => data = "{}"
    /\ (gen > 1 /\ prev.saved /\ pc \notin {"new", "failed"}
            /\ storeExt = prev.ext) => first_load = "False"
    /\ (gen > 1 /\ prev.saved /\ storeExt = prev.ext /\ JustLoaded) =>
           data = prev.data

\* The scenario played to its end: no prior data, first_load True, the empty
\* object loaded, the data changed and saved by a non-debug unload, then a
\* second instance on the same paths has just loaded that data.
RoundTripDone ==
    /\ gen = 2
    /\ prev.noPrior /\ prev.first_load = "True" /\ prev.loaded /\ prev.saved
    /\ prev.data = NewData
    /\ storeExt = prev.ext
    /\ JustLoaded
    /\ data = NewData
    /\ first_load = "False"

\* C12: the persistence round trip, first leg: for a plugin with no prior
\* data, in a format the store knows and on a file system without faults,
\* once the load step of __onload__ is over (the missing file reported and
\* the self-heal done) the in-memory data is the empty object and
\* __onload__ has not raised; the later legs (change, non-debug unload,
\* fresh instance, load) start from there.
C12_RoundTripFirstLeg ==
    (/\ pc \notin {"new", "failed"}
     /\ preFiles[storeExt] = "none"
     /\ storeExt \in KnownFormats
     /\ ~ioFault
     /\ loadCalls # <<>> /\ loadCalls[1] = "FileNotFoundError"
     /\ ~(pc = "onload" /\ olIdx = 1)) =>
        /\ loadCalls[Len(loadCalls)] = "none"
        /\ onloadErr \notin {"FileNotFoundError", "RuntimeError"}
        /\ (JustLoaded => data = "{}")

C13_RemoveUnknown ==
    /\ lastTask.op = "remove_scheduled_task"
    /\ lastTask.name \notin lastTask.before
    /\ ~lastTask.ret

\* ----------------------------------------------------------------------- C14
\* The steps of an __onload__ that runs to its end.
FullOnloadLog == <<"load", "_init_", "return", "on_load", "return">>

\* C14: within one __onload__ the load step comes first, then _init_ runs to
\* its end, then on_load is started: the log of the call is a prefix of that
\* order (or such a prefix ended by a hook raising); a hook has started only
\* when the load, after at most one retry, has succeeded, and the hook that
\* is running is the last one started.
C14_OnloadStepsInOrder ==
    /\ \/ IsPrefix(olLog, FullOnloadLog)
       \/ /\ Len(olLog) >= 2
          /\ olLog[Len(olLog)] = "raise"
          /\ olLog[Len(olLog) - 1] \in {"_init_", "on_load"}
          /\ IsPrefix(SubSeq(olLog, 1, Len(olLog) - 1), FullOnloadLog)
    /\ Len(olLog) >= 2 =>
        /\ Len(loadCalls) \in 1..2
        /\ loadCalls[Len(loadCalls)] = "none"
    /\ (pc = "onload" /\ hook # "none") =>
           (olLog # <<>> /\ olLog[Len(olLog)] = hook)

\* An __onload__ ran to its end after a load that succeeded on the retry.
C14_Witness ==
    /\ olLog = FullOnloadLog
    /\ olIdx > Len(OnloadOrder)
    /\ onloadErr = "none"
    /\ Len(loadCalls) = 2

\* ----------------------------------------------------------------------- C15
\* C15: once the revocation step of __unload__ is over, an unsubscribe has
\* been attempted for every token the instance tracks, no failure of the bus
\* has reached the caller, and __unload__ has gone on to the close hooks.
C15_RevocationIsBestEffort ==
    ulLog # <<>> =>
        /\ \A i \in 1..Len(handlers) :
               handlers[i] \in preUnload => unsubCalls[handlers[i]] >= 1
        /\ unloadErr.kind # "BusError"
        /\ (pc = "unloaded" /\ unloadErr = NoErr) =>
               IsPrefix(<<"revoke", "_close_">>, ulLog)
        /\ (ulLog = <<"revoke">>) => pc = "unload"

\* ----------------------------------------------------------------------- C16
\* C16: an exception raised by _init_ or on_load is the exception __onload__
\* raises, and an exception raised by _close_ or on_close is the exception
\* __unload__ raises: the same exception, not wrapped and not suppressed.
C16_HookErrorPropagates ==
    /\ hookRaised.in = "onload" =>
        /\ onloadErr = hookRaised.exc
        /\ olLog[Len(olLog)] = "raise"
        /\ olLog[Len(olLog) - 1] = hookRaised.hook
    /\ hookRaised.in = "unload" =>
        /\ unloadErr = Err(hookRaised.exc)
        /\ pc = "unloaded"
        /\ ulLog[Len(ulLog)] = "raise"
        /\ ulLog[Len(ulLog) - 1] = hookRaised.hook

\* The _close_ hook, which runs in a worker thread, raised an exception that
\* the except clause of the persist step names.
C16_Witness ==
    /\ hookRaised = [in |-> "unload", hook |-> "_close_",
                     exc |-> "FileNotFoundError"]
    /\ unloadErr.kind = "FileNotFoundError"
    /\ pc = "unloaded"

\* Each of the four hooks raises in some run.
C16_InitRaised == hookRaised.in = "onload" /\ hookRaised.hook = "_init_"
C16_OnLoadRaised == hookRaised.in = "onload" /\ hookRaised.hook = "on_load"
C16_OnCloseRaised == hookRaised.in = "unload" /\ hookRaised.hook = "on_close"

\* ----------------------------------------------------------------------- C17
\* C17: over the life of an instance the bus's unsubscribe is invoked at most
\* once for each token, and the tracked handler list never holds the same
\* token twice.
C17_UnsubscribeOncePerToken ==
    /\ \A t \in Tokens : unsubCalls[t] <= 1
    /\ \A i, j \in 1..Len(handlers) : handlers[i] = handlers[j] => i = j

\* ----------------------------------------------------------------------- C18
\* C18: every subscription made through this instance's register_handler and
\* still active on the bus has its token in the tracked handler list; a
\* register_handler call appends the token the bus returned to the list and
\* returns that token.
C18_ActiveTokensAreTracked ==
    /\ (active \cap OwnTokens) \subseteq Range(handlers)
    /\ lastCall.op = "register_handler" =>
        /\ lastCall.ret = "token"
        /\ lastCall.token = nextToken - 1
        /\ handlers = Append(lastCall.before, lastCall.token)

\* A subscription is active and tracked after another token went through
\* unregister_handler and a new one was registered.
C18_Witness ==
    /\ lastCall.op = "register_handler"
    /\ lastCall.token \in active
    /\ Len(lastCall.before) >= 2
    /\ lastCall.token \in Range(handlers)

\* ----------------------------------------------------------------------- C19
\* C19: when _close_ or on_close raises during a non-debug __unload__, no
\* later step is run: save is not invoked and the files are as they were
\* when __unload__ was called, while the subscriptions made before the
\* unload are revoked; when it is _close_ that raised, on_close was not
\* started.
C19_CloseHookRaiseSkipsSave ==
    (pc = "unloaded" /\ ~debug /\ hookRaised.in = "unload") =>
        /\ saveCalls = <<>>
        /\ files = filesAtUnload
        /\ "persist" \notin Range(ulLog)
        /\ active \cap preUnload = {}
        /\ ulLog[1] = "revoke"
        /\ hookRaised.hook = "_close_" => "on_close" \notin Range(ulLog)

\* on_close raised in a non-debug unload after plugin code had changed the
\* data: the change is not in the data file.
C19_Witness ==
    /\ pc = "unloaded" /\ ~debug
    /\ hookRaised.in = "unload" /\ hookRaised.hook = "on_close"
    /\ data = NewData
    /\ files[storeExt] # NewData

\* _close_ raised in an unload of an instance that had registered handlers.
C19_CloseRaisedWithHandlers ==
    /\ pc = "unloaded" /\ ~debug
    /\ hookRaised.in = "unload" /\ hookRaised.hook = "_close_"
    /\ preUnload # {}

\* ----------------------------------------------------------------------- C20
\* C20: the job set of the scheduler is the one the facade calls account for
\* (the jobs there at the start, plus those add_scheduled_task added, minus
\* those remove_scheduled_task removed): no step of __unload__ changes it,
\* and a job this instance added and did not remove is still registered,
\* also after __unload__ has returned or raised.
C20_UnloadKeepsJobs ==
    /\ jobs = expectedJobs
    /\ added \subseteq jobs
    /\ (lastTask.op = "remove_scheduled_task" /\ lastTask.ret) =>
           jobs = lastTask.before \ {lastTask.name}

\* __unload__ returned and the job "ping", added by this instance, is still
\* registered, next to a job that is not this instance's.
C20_Witness ==
    /\ pc = "unloaded"
    /\ unloadErr = NoErr
    /\ ulLog = FullUnloadLog
    /\ added = {"ping"}
    /\ jobs = {"ping", "tick"}
====
